---- MODULE Spec2Model ----
(***************************************************************************)
(* Model of the ping-py-server monitoring engine                           *)
(* (src/ping/monitor_service.py, src/ping/database_service.py).            *)
(*                                                                         *)
(* One cycle is monitor_run: a Celery chord whose header holds one chain   *)
(* can_connect -> process_notification per device of the snapshot and      *)
(* whose body is cleanup_monitor.  The registry (the management API of     *)
(* src/ping/__init__.py) creates, patches and deletes devices while a      *)
(* cycle is running.                                                       *)
(***************************************************************************)
EXTENDS Integers, Sequences, FiniteSets, TLC

\* ---------------------------------------------------------------- bounds
MaxCycles == 2         \* monitor_run invocations explored
MaxRegistryOps == 1    \* management-API requests explored
MaxRuns == 2           \* cycles that may be in flight at the same time

\* The ids of the monitor_device rows.
DeviceIds == {1, 2}
Slots == 1..MaxRuns

\* ------------------------------------------------------------ data model
\* MonitorDevice columns the engine reads (models/monitor_device.py).  The
\* text columns are kept as text: a time of day is the 5-character string
\* "HH:MM", held here as a sequence of one-character strings.
Colon == ":"
T0000 == <<"0", "0", Colon, "0", "0">>
T0900 == <<"0", "9", Colon, "0", "0">>
T1730 == <<"1", "7", Colon, "3", "0">>
T2359 == <<"2", "3", Colon, "5", "9">>

\* (monitor_start_utc, monitor_end_utc) pairs a device is registered with:
\* the whole day and office hours.
Windows == {<<T0000, T2359>>, <<T0900, T1730>>}

Triggers == {"ONLINE", "OFFLINE"}

\* port is Optional[int]; None is written "None", an integer by its digits.
PortNone == "None"
IcmpEndpoint == [port |-> PortNone, proto |-> "None"]
TcpEndpoint == [port |-> "443", proto |-> "TCP"]
UdpEndpoint == [port |-> "53", proto |-> "UDP"]

\* The devices of the cycles explored are ICMP devices: a device with a port
\* behaves in a cycle as an ICMP device whose probe ends in the except branch
\* (see ProbeOutcomes), so its cycles are among theirs.
Endpoints == {IcmpEndpoint}
AllEndpoints == {IcmpEndpoint, TcpEndpoint, UdpEndpoint}

\* identifier is the address the probe tests; the devices of the store and
\* of the registry's requests have the first one, a device registered in
\* place of another one (ApiReplace) the second.
Identifier == "10.0.0.1"
OtherIdentifier == "10.0.0.2"

MonitorDevice == [identifier : {Identifier, OtherIdentifier},
                  persist : BOOLEAN,
                  monitor_trigger : Triggers,
                  monitor_start_utc : {w[1] : w \in Windows},
                  monitor_end_utc : {w[2] : w \in Windows},
                  port : {e.port : e \in AllEndpoints},
                  proto : {e.proto : e \in AllEndpoints},
                  been_notified : BOOLEAN]

\* been_notified = mapped_column(Boolean, default=False)
BeenNotifiedDefault == FALSE

\* The records a POST /api/devices request creates.
NewDevices == {[identifier |-> Identifier,
                persist |-> p, monitor_trigger |-> t,
                monitor_start_utc |-> w[1], monitor_end_utc |-> w[2],
                port |-> e.port, proto |-> e.proto,
                been_notified |-> BeenNotifiedDefault] :
               p \in BOOLEAN, t \in Triggers, w \in Windows, e \in Endpoints}

\* The local `device` of a task before it has read one.
NullDevice == [identifier |-> Identifier,
               persist |-> FALSE, monitor_trigger |-> "OFFLINE",
               monitor_start_utc |-> T0000, monitor_end_utc |-> T0000,
               port |-> PortNone, proto |-> "None",
               been_notified |-> FALSE]

\* ------------------------------------------------------------- the clock
\* datetime.now(UTC) as (hour, minute).  Line 118 reads the clock twice:
\* the hour from the first reading, the minute from the second, which is
\* the same minute or the one after it.
Clock == {[hour |-> 9, minute |-> 0], [hour |-> 17, minute |-> 59]}

NextMinute(t) ==
    IF t.minute < 59 THEN [hour |-> t.hour, minute |-> t.minute + 1]
    ELSE [hour |-> (t.hour + 1) % 24, minute |-> 0]

ClockReads == {<<t, t>> : t \in Clock} \cup {<<t, NextMinute(t)>> : t \in Clock}

\* current_time_utc = (datetime.now(UTC).hour * 100) + datetime.now(UTC).minute
CurrentTimeUtc(reads) == (reads[1].hour * 100) + reads[2].minute

\* ------------------------------------------------------- pure functions
DigitValue(c) ==
    CASE c = "0" -> 0 [] c = "1" -> 1 [] c = "2" -> 2 [] c = "3" -> 3
      [] c = "4" -> 4 [] c = "5" -> 5 [] c = "6" -> 6 [] c = "7" -> 7
      [] c = "8" -> 8 [] c = "9" -> 9

\* str.replace(old, '') for a one-character old
Replace(s, old) == SelectSeq(s, LAMBDA c : c # old)

\* int(s) for a string of decimal digits
RECURSIVE ParseInt(_)
ParseInt(s) ==
    IF s = <<>> THEN 0
    ELSE (ParseInt(SubSeq(s, 1, Len(s) - 1)) * 10) + DigitValue(s[Len(s)])

\* trigger_start_utc / trigger_end_utc, lines 119-120
TriggerTime(text) == ParseInt(Replace(text, Colon))

\* Mutant of InWindow: the upper end of the window is not compared.
InWindow_NoEnd(current_time_utc, device) ==
    current_time_utc >= TriggerTime(device.monitor_start_utc)

\* line 124
InWindow(current_time_utc, device) ==
    /\ current_time_utc >= TriggerTime(device.monitor_start_utc)
    /\ current_time_utc <= TriggerTime(device.monitor_end_utc)

\* can_connect is "True", "False" or "None" (the probe's three results)
Connectivity == {"True", "False", "None"}

\* Mutant of NoConnectionInformation: None is not told from False.
NoConnectionInformation_Never(can_connect) == FALSE

\* line 108
NoConnectionInformation(can_connect) == can_connect = "None"

\* Mutant of ForwardEdge: been_notified is not consulted.
ForwardEdge_IgnoresFlag(device, can_connect) ==
    \/ (can_connect = "True" /\ device.monitor_trigger = "ONLINE")
    \/ (can_connect # "True" /\ device.monitor_trigger = "OFFLINE")

\* line 125: the primary notification
ForwardEdge(device, can_connect) ==
    /\ \/ (can_connect = "True" /\ device.monitor_trigger = "ONLINE")
       \/ (can_connect # "True" /\ device.monitor_trigger = "OFFLINE")
    /\ ~device.been_notified

\* Mutant of ReverseEdge: persist is not consulted.
ReverseEdge_IgnoresPersist(device, can_connect) ==
    /\ \/ (can_connect = "True" /\ device.monitor_trigger = "OFFLINE")
       \/ (can_connect # "True" /\ device.monitor_trigger = "ONLINE")
    /\ device.been_notified

\* line 130: the "is now back" notification of a persisted record
ReverseEdge(device, can_connect) ==
    /\ device.persist
    /\ \/ (can_connect = "True" /\ device.monitor_trigger = "OFFLINE")
       \/ (can_connect # "True" /\ device.monitor_trigger = "ONLINE")
    /\ device.been_notified

\* lines 124-138 and 166-167: which message, if any, the task goes on to send
Decision(device, can_connect, current_time_utc) ==
    IF InWindow(current_time_utc, device)
    THEN IF ForwardEdge(device, can_connect) THEN "primary"
         ELSE IF ReverseEdge(device, can_connect) THEN "restored"
         ELSE "none"
    ELSE "none"

\* Mutant of NewBeenNotified: the flag of a persisted record is always reset.
NewBeenNotified_PersistOnly(device) == IF device.persist THEN FALSE ELSE TRUE

\* Mutant of NewBeenNotified: the flag is always set.
NewBeenNotified_AlwaysTrue(device) == TRUE

\* lines 157-161
NewBeenNotified(device) ==
    IF device.persist /\ device.been_notified THEN FALSE ELSE TRUE

\* Mutant of ShouldCleanup: persist is not consulted.
ShouldCleanup_IgnoresPersist(device) == device.been_notified

\* should_cleanup, lines 45-46
ShouldCleanup(device) ==
    IF device.been_notified /\ ~device.persist THEN TRUE ELSE FALSE

\* Mutant of MergeDevice: the flag of the merged object lands on every row.
MergeDevice_EveryRow(db, id, device) ==
    [x \in (DOMAIN db) \cup {id} |->
        IF x = id THEN device
        ELSE [db[x] EXCEPT !.been_notified = device.been_notified]]

\* DatabaseService.update_devices with a MonitorDevice: session.merge copies
\* every attribute of the given object onto the row with its primary key,
\* and inserts the row when the table has none.
MergeDevice(db, id, device) ==
    [x \in (DOMAIN db) \cup {id} |-> IF x = id THEN device ELSE db[x]]

\* DatabaseService.update_devices with a JSON patch (a dict of columns):
\* UPDATE monitor_device SET ... WHERE id = :id
PatchDevice(db, id, patch) ==
    [x \in DOMAIN db |->
        IF x = id
        THEN [f \in DOMAIN db[x] |-> IF f \in DOMAIN patch THEN patch[f] ELSE db[x][f]]
        ELSE db[x]]

\* Mutant of DeleteDevices: only one of the ids is deleted.
DeleteDevices_OnlyOne(db, ids) ==
    IF ids = {} THEN db
    ELSE [x \in (DOMAIN db) \ {CHOOSE i \in ids : \A j \in ids : i <= j} |-> db[x]]

\* DatabaseService.delete_devices: DELETE ... WHERE id IN (:ids)
DeleteDevices(db, ids) == [x \in (DOMAIN db) \ ids |-> db[x]]

\* DatabaseService.create_devices: session.add_all
CreateDevice(db, id, device) ==
    [x \in (DOMAIN db) \cup {id} |-> IF x = id THEN device ELSE db[x]]

\* The columns a PUT /api/devices request patches: those the API shows
\* (MonitorDeviceEncoder.encodable_vals), which leave out been_notified.
Patches ==
    {[persist |-> p] : p \in BOOLEAN}
    \cup {[monitor_trigger |-> t] : t \in Triggers}
    \cup {[monitor_start_utc |-> w[1], monitor_end_utc |-> w[2]] : w \in Windows}

\* What running the reachability test of a device gives at the moment of the
\* probe: the subprocess exits with status 0 (the device answers), with
\* another status (it does not), or cannot be run (the executor's fault).
Tests == {"exit_0", "exit_nonzero", "fault"}

\* Lines 65-84: the result of can_connect for a device whose test would end
\* as `test`.  `match device.port` has cases None, "TCP" and "UDP", which run
\* the subprocess (line 82: True for returncode 0, else False; the except
\* branch of line 78: None), and `case _`, which raises ValueError into the
\* same except branch without running anything.
CanConnectResult(device, test) ==
    IF device.port \in {PortNone, "TCP", "UDP"}
    THEN CASE test = "exit_0" -> "True"
           [] test = "exit_nonzero" -> "False"
           [] test = "fault" -> "None"
    ELSE "None"

\* ----------------------------------------------------------------- state
VARIABLES
    store,     \* the monitor_device table: device id -> row
    run,       \* per chord in flight: phase, snapshot, cleanup's pending ids
    wf,        \* per chord and device: the chain can_connect -> process_notification
    outbox,    \* per device id: the messages the mail server accepted, in order
    cycles,    \* monitor_run invocations so far
    ops        \* management-API requests so far

vars == <<store, run, wf, outbox, cycles, ops>>

\* A chain that is not scheduled; can_connect is "unset" until the probe returns.
\* `test` is what the probe's reachability test gave and `now` the two
\* readings of the clock at line 118, kept while the task that made them runs.
IdleWorkflow == [pc |-> "idle", can_connect |-> "unset", device |-> NullDevice,
                 current_time_utc |-> 0, message |-> "none",
                 delivery |-> "none", error_logged |-> FALSE,
                 test |-> "unset", now |-> <<>>]

IdleRun == [phase |-> "idle", snapshot |-> {}, pending |-> {}, cleanups |-> 0]

\* Phases in which no task of the chord is left to run.
Over == {"idle", "finished", "errored"}

Stores == UNION {[S -> NewDevices] : S \in SUBSET DeviceIds}

Init ==
    /\ store \in Stores
    /\ run = [r \in Slots |-> IdleRun]
    /\ wf = [r \in Slots |-> [d \in DeviceIds |-> IdleWorkflow]]
    /\ outbox = [d \in DeviceIds |-> <<>>]
    /\ cycles = 0
    /\ ops = 0

\* ------------------------------------------------------------ monitor_run
\* Lines 171-176: one chain per id of the list read at line 171, in a chord
\* whose body is cleanup_monitor.
\* Mutant of StartedWorkflows: the chains are queued at process_notification,
\* without can_connect before it.
StartedWorkflows_SkipProbe(snapshot) ==
    [d \in DeviceIds |->
        IF d \in snapshot THEN [IdleWorkflow EXCEPT !.pc = "process_notification"]
        ELSE IdleWorkflow]

StartedWorkflows(snapshot) ==
    [d \in DeviceIds |->
        IF d \in snapshot THEN [IdleWorkflow EXCEPT !.pc = "can_connect"]
        ELSE IdleWorkflow]

MonitorRun(r) ==
    /\ cycles < MaxCycles
    /\ run[r].phase \in Over
    /\ cycles' = cycles + 1
    /\ run' = [run EXCEPT ![r] = [phase |-> "header", snapshot |-> DOMAIN store,
                                  pending |-> {}, cleanups |-> 0]]
    /\ wf' = [wf EXCEPT ![r] = StartedWorkflows(DOMAIN store)]
    /\ UNCHANGED <<store, outbox, ops>>

\* The beat schedule of init_app.py starts a cycle every minute; the cycles
\* of Spec are those that start after the one before has ended.
NoRunInFlight == \A r \in Slots : run[r].phase \in Over

\* ------------------------------------------------------------ can_connect
\* Lines 65-84: the outcomes of the probe of one device.  `match device.port`
\* runs a subprocess for None, "TCP" and "UDP" (exit status 0: True, another
\* status: False, a failure to launch: the except branch, None) and raises
\* ValueError, caught at line 78, for any other port.
ProbeOutcomes(device) == {CanConnectResult(device, test) : test \in Tests}

\* Lines 56-60: no such device, ValueError out of the task.
CanConnectInvalidId(r, d) ==
    /\ wf[r][d].pc = "can_connect"
    /\ d \notin DOMAIN store
    /\ wf' = [wf EXCEPT ![r][d].pc = "failed", ![r][d].error_logged = TRUE]
    /\ UNCHANGED <<store, run, outbox, cycles, ops>>

\* Lines 62-84: returns (device_id, can_connect).
CanConnect(r, d) ==
    /\ wf[r][d].pc = "can_connect"
    /\ d \in DOMAIN store
    /\ \E test \in Tests :
         LET result == CanConnectResult(store[d], test)
         IN  wf' = [wf EXCEPT ![r][d].pc = "process_notification",
                              ![r][d].can_connect = result,
                              ![r][d].test = test,
                              ![r][d].error_logged = (result = "None")]
    /\ UNCHANGED <<store, run, outbox, cycles, ops>>

\* --------------------------------------------------- process_notification
\* Lines 105-110 with can_connect None, and lines 106-119 with a device that
\* is gone (device is None: AttributeError at its first attribute): the task
\* raises.  logger.error is reached only when the device is there.
ProcessNotificationRaises(r, d) ==
    /\ wf[r][d].pc = "process_notification"
    /\ d \notin DOMAIN store \/ NoConnectionInformation(wf[r][d].can_connect)
    /\ wf' = [wf EXCEPT ![r][d].pc = "failed",
                        ![r][d].error_logged = (@ \/ d \in DOMAIN store)]
    /\ UNCHANGED <<store, run, outbox, cycles, ops>>

\* Lines 105-123: the device as the store has it now, and the clock.
ProcessNotification(r, d) ==
    /\ wf[r][d].pc = "process_notification"
    /\ d \in DOMAIN store
    /\ ~NoConnectionInformation(wf[r][d].can_connect)
    /\ \E reads \in ClockReads :
         wf' = [wf EXCEPT ![r][d].pc = "evaluate",
                          ![r][d].device = store[d],
                          ![r][d].now = reads,
                          ![r][d].current_time_utc = CurrentTimeUtc(reads)]
    /\ UNCHANGED <<store, run, outbox, cycles, ops>>

\* Lines 124-148 and 166-167: return, or build the message to send.
Evaluate(r, d) ==
    /\ wf[r][d].pc = "evaluate"
    /\ LET message == Decision(wf[r][d].device, wf[r][d].can_connect,
                               wf[r][d].current_time_utc)
       IN  wf' = [wf EXCEPT ![r][d] =
                    IF message = "none"
                    THEN [IdleWorkflow EXCEPT !.pc = "done",
                                              !.can_connect = wf[r][d].can_connect]
                    ELSE [@ EXCEPT !.pc = "deliver", !.message = message,
                                   !.current_time_utc = 0, !.now = <<>>,
                                   !.test = "unset"]]
    /\ UNCHANGED <<store, run, outbox, cycles, ops>>

\* How a chain that reached the mail server ended: the task's locals are gone,
\* its state (SUCCESS or FAILURE), the probe's result and what it did stay.
Delivered(w, pc, delivery) ==
    [IdleWorkflow EXCEPT !.pc = pc, !.can_connect = w.can_connect,
                         !.delivery = delivery,
                         !.error_logged = (delivery # "sent")]

\* The else clause of the try statement (lines 156-163) sets the flag on the
\* object read at line 106 and merges it; it runs only when SMTP(...) and
\* send_message returned.
FlagWritten(device) == [device EXCEPT !.been_notified = NewBeenNotified(device)]

\* Mutant of StoreAfterDelivery: the flag is written whatever the outcome.
StoreAfterDelivery_Always(db, id, device, delivery) ==
    MergeDevice(db, id, FlagWritten(device))

\* Mutant of StoreAfterDelivery: the flag is written once SMTP(...) has
\* returned, before send_message.
StoreAfterDelivery_BeforeSend(db, id, device, delivery) ==
    IF delivery # "connect_failed" THEN MergeDevice(db, id, FlagWritten(device))
    ELSE db

StoreAfterDelivery(db, id, device, delivery) ==
    IF delivery = "sent" THEN MergeDevice(db, id, FlagWritten(device)) ELSE db

\* Lines 150-165.  SMTP(...) raises: logged, and the finally clause raises
\* UnboundLocalError (smtp_server was never bound), so the task fails.
DeliverConnectFails(r, d) ==
    /\ wf[r][d].pc = "deliver"
    /\ wf' = [wf EXCEPT ![r][d] = Delivered(@, "failed", "connect_failed")]
    /\ store' = StoreAfterDelivery(store, d, wf[r][d].device, "connect_failed")
    /\ UNCHANGED <<run, outbox, cycles, ops>>

\* send_message raises: logged; quit() in the finally clause returns or
\* raises (SMTPServerDisconnected).
DeliverSendFails(r, d) ==
    /\ wf[r][d].pc = "deliver"
    /\ \E quit_ok \in BOOLEAN :
         wf' = [wf EXCEPT ![r][d] =
                  Delivered(@, IF quit_ok THEN "done" ELSE "failed", "send_failed")]
    /\ store' = StoreAfterDelivery(store, d, wf[r][d].device, "send_failed")
    /\ UNCHANGED <<run, outbox, cycles, ops>>

\* The message is sent, the flag is written, then quit().

DeliverSent(r, d) ==
    /\ wf[r][d].pc = "deliver"
    /\ store' = StoreAfterDelivery(store, d, wf[r][d].device, "sent")
    /\ \E quit_ok \in BOOLEAN :
         wf' = [wf EXCEPT ![r][d] =
                  Delivered(@, IF quit_ok THEN "done" ELSE "failed", "sent")]
    /\ outbox' = [outbox EXCEPT ![d] = Append(@, wf[r][d].message)]
    /\ UNCHANGED <<run, cycles, ops>>

\* ------------------------------------------------------------- the chord
\* chord(task_chain)(callback), line 176.  Celery calls the body once every
\* header chain has returned; a header task that raised makes the chord fail
\* with ChordError and the body is not called.
Ended(r, d) == wf[r][d].pc \in {"done", "failed"}

\* Mutant of HeaderComplete: one chain that has returned is enough.
HeaderComplete_Any(r) == \E d \in run[r].snapshot : Ended(r, d)

HeaderComplete(r) == \A d \in run[r].snapshot : Ended(r, d)

HeaderFailed(r) == \E d \in run[r].snapshot : wf[r][d].pc = "failed"

ChordBody(r) ==
    /\ run[r].phase = "header"
    /\ HeaderComplete(r)
    /\ ~HeaderFailed(r)
    /\ run' = [run EXCEPT ![r].phase = "cleanup", ![r].cleanups = @ + 1]
    /\ UNCHANGED <<store, wf, outbox, cycles, ops>>

ChordError(r) ==
    /\ run[r].phase = "header"
    /\ HeaderComplete(r)
    /\ HeaderFailed(r)
    /\ run' = [run EXCEPT ![r].phase = "errored"]
    /\ wf' = [wf EXCEPT ![r] = [d \in DeviceIds |-> IdleWorkflow]]
    /\ UNCHANGED <<store, outbox, cycles, ops>>

\* -------------------------------------------------------- cleanup_monitor
\* Line 49
DevicesPendingRemoval(db) == {id \in DOMAIN db : ShouldCleanup(db[id])}

CleanupRead(r) ==
    /\ run[r].phase = "cleanup"
    /\ run' = [run EXCEPT ![r].phase = "removing",
                          ![r].pending = DevicesPendingRemoval(store)]
    /\ UNCHANGED <<store, wf, outbox, cycles, ops>>

\* Line 50
CleanupRemove(r) ==
    /\ run[r].phase = "removing"
    /\ store' = DeleteDevices(store, run[r].pending)
    /\ run' = [run EXCEPT ![r].phase = "finished"]
    /\ wf' = [wf EXCEPT ![r] = [d \in DeviceIds |-> IdleWorkflow]]
    /\ UNCHANGED <<outbox, cycles, ops>>

\* ------------------------------------------------------------ the registry
\* process_devices_req, src/ping/__init__.py lines 148-179
ApiCreate(d, device) ==
    /\ ops < MaxRegistryOps
    /\ d \notin DOMAIN store
    /\ store' = CreateDevice(store, d, device)
    /\ outbox' = [outbox EXCEPT ![d] = <<>>]
    /\ ops' = ops + 1
    /\ UNCHANGED <<run, wf, cycles>>

ApiUpdate(d, patch) ==
    /\ ops < MaxRegistryOps
    /\ store' = PatchDevice(store, d, patch)
    /\ ops' = ops + 1
    /\ UNCHANGED <<run, wf, outbox, cycles>>

ApiDelete(d) ==
    /\ ops < MaxRegistryOps
    /\ store' = DeleteDevices(store, {d})
    /\ ops' = ops + 1
    /\ UNCHANGED <<run, wf, outbox, cycles>>

\* ---------------------------------------------------------- specification
Workflow(r, d) ==
    \/ CanConnectInvalidId(r, d)
    \/ CanConnect(r, d)
    \/ ProcessNotificationRaises(r, d)
    \/ ProcessNotification(r, d)
    \/ Evaluate(r, d)
    \/ DeliverConnectFails(r, d)
    \/ DeliverSendFails(r, d)
    \/ DeliverSent(r, d)

Chord(r) == ChordBody(r) \/ ChordError(r) \/ CleanupRead(r) \/ CleanupRemove(r)

Registry ==
    \/ \E d \in DeviceIds, device \in NewDevices : ApiCreate(d, device)
    \/ \E d \in DeviceIds, patch \in Patches : ApiUpdate(d, patch)
    \/ \E d \in DeviceIds : ApiDelete(d)

Next ==
    \/ NoRunInFlight /\ MonitorRun(1)
    \/ \E r \in Slots : Chord(r)
    \/ \E r \in Slots, d \in DeviceIds : Workflow(r, d)
    \/ Registry

Spec == Init /\ [][Next]_vars

\* ------------------------------------------------- the probe on its own
\* can_connect over every kind of device the registry holds: ICMP devices
\* (no port) and TCP and UDP devices (an integer port).
ProbeDevices ==
    {[identifier |-> Identifier,
      persist |-> p, monitor_trigger |-> t,
      monitor_start_utc |-> w[1], monitor_end_utc |-> w[2],
      port |-> e.port, proto |-> e.proto,
      been_notified |-> BeenNotifiedDefault] :
     p \in BOOLEAN, t \in Triggers, w \in Windows, e \in AllEndpoints}

ProbeInit ==
    /\ store \in [DeviceIds -> ProbeDevices]
    /\ run = [r \in Slots |-> IdleRun]
    /\ wf = [r \in Slots |-> [d \in DeviceIds |-> IdleWorkflow]]
    /\ outbox = [d \in DeviceIds |-> <<>>]
    /\ cycles = 0
    /\ ops = 0

ProbeNext ==
    \/ NoRunInFlight /\ MonitorRun(1)
    \/ \E d \in DeviceIds : CanConnect(1, d)

ProbeSpec == ProbeInit /\ [][ProbeNext]_vars

\* ------------------------------------------------ cycles without an end
\* The beat schedule (init_app.py, every minute) starts monitor_run for as
\* long as the service is up.  The cycles are not counted here, and the
\* outbox holds what the cycle that is running has sent.
MonitorRunAgain(r) ==
    /\ run[r].phase \in Over
    /\ run' = [run EXCEPT ![r] = [phase |-> "header", snapshot |-> DOMAIN store,
                                  pending |-> {}, cleanups |-> 0]]
    /\ wf' = [wf EXCEPT ![r] = StartedWorkflows(DOMAIN store)]
    /\ outbox' = [d \in DeviceIds |-> <<>>]
    /\ UNCHANGED <<store, cycles, ops>>

\* The chain of a device while no registry request is served: the device
\* read at line 56 is there, so can_connect does not raise at line 60.
RegisteredWorkflow(r, d) ==
    \/ CanConnect(r, d)
    \/ ProcessNotificationRaises(r, d)
    \/ ProcessNotification(r, d)
    \/ Evaluate(r, d)
    \/ DeliverConnectFails(r, d)
    \/ DeliverSendFails(r, d)
    \/ DeliverSent(r, d)

\* The steps of the engine: the beat, the chord and the chains.
LiveNext ==
    \/ NoRunInFlight /\ MonitorRunAgain(1)
    \/ \E r \in Slots : Chord(r)
    \/ \E r \in Slots, d \in DeviceIds : RegisteredWorkflow(r, d)

\* The beat keeps starting cycles and the workers keep running the tasks
\* that are queued: an engine step that can be taken is taken.
LiveSpec == Init /\ [][LiveNext]_vars /\ WF_vars(LiveNext)

\* ------------------------------------------- an id that changes hands
\* POST /api/devices builds MonitorDevice(**device) from the request, its id
\* included, and the table gives a freed id out again: a DELETE request for
\* d and a POST request that registers another device under d, served one
\* after the other.
ReplacementDevices == {[device EXCEPT !.identifier = OtherIdentifier] : device \in NewDevices}

ApiReplace(d, device) ==
    /\ ops < MaxRegistryOps
    /\ d \in DOMAIN store
    /\ store' = CreateDevice(DeleteDevices(store, {d}), d, device)
    /\ outbox' = [outbox EXCEPT ![d] = <<>>]
    /\ ops' = ops + 1
    /\ UNCHANGED <<run, wf, cycles>>

\* The requests are served while a cycle is running, and no cycle is started
\* after them: a chain that runs belongs to a cycle whose read of the store
\* came before every replacement.
ReuseNext ==
    \/ NoRunInFlight /\ ops = 0 /\ MonitorRun(1)
    \/ \E r \in Slots : Chord(r)
    \/ \E r \in Slots, d \in DeviceIds : RegisteredWorkflow(r, d)
    \/ /\ run[1].phase = "header"
       /\ \E d \in DeviceIds, device \in ReplacementDevices : ApiReplace(d, device)

\* One registered device.
ReuseInit == Init /\ DOMAIN store = {1}

ReuseSpec == ReuseInit /\ [][ReuseNext]_vars

\* ------------------------------------- requests that name been_notified
\* The handlers take the request's JSON as it is: POST passes every field to
\* MonitorDevice(**device) (line 153) and PUT passes the dict to
\* update(MonitorDevice).values(device) (database_service.py, lines 45-49),
\* so a request may carry been_notified like any other column.
RequestDevices ==
    NewDevices \cup {[device EXCEPT !.been_notified = TRUE] : device \in NewDevices}

RequestPatches == Patches \cup {[been_notified |-> b] : b \in BOOLEAN}

ApiNext ==
    \/ NoRunInFlight /\ MonitorRun(1)
    \/ \E r \in Slots : Chord(r)
    \/ \E r \in Slots, d \in DeviceIds : Workflow(r, d)
    \/ \E d \in DeviceIds, device \in RequestDevices : ApiCreate(d, device)
    \/ \E d \in DeviceIds, patch \in RequestPatches : ApiUpdate(d, patch)
    \/ \E d \in DeviceIds : ApiDelete(d)

ApiSpec == ReuseInit /\ [][ApiNext]_vars

\* ------------------------------------------------- cycles that overlap
\* The beat schedule of init_app.py sends monitor_run every minute, whether
\* or not the chord of the minute before has ended (a chain waits in the
\* queue behind other tasks, or in SMTP(...), as long as it takes): a cycle
\* starts in any slot that is free, while the chains of the other slot run.
OverlapNext ==
    \/ \E r \in Slots : MonitorRun(r)
    \/ \E r \in Slots : Chord(r)
    \/ \E r \in Slots, d \in DeviceIds : Workflow(r, d)

OverlapSpec == ReuseInit /\ [][OverlapNext]_vars

\* ================================================================ claims
\* The probe result is the state the device's trigger names.
MatchesTrigger(device, can_connect) ==
    \/ (can_connect = "True" /\ device.monitor_trigger = "ONLINE")
    \/ (can_connect = "False" /\ device.monitor_trigger = "OFFLINE")

\* The probe result is the state opposite to the device's trigger.
OppositeOfTrigger(device, can_connect) ==
    \/ (can_connect = "True" /\ device.monitor_trigger = "OFFLINE")
    \/ (can_connect = "False" /\ device.monitor_trigger = "ONLINE")

\* The time the task computed lies outside [monitor_start_utc, monitor_end_utc].
OutsideWindow(w) ==
    \/ w.current_time_utc < TriggerTime(w.device.monitor_start_utc)
    \/ w.current_time_utc > TriggerTime(w.device.monitor_end_utc)

\* This step is the decision (lines 124-138, 166-167) of device d's chain.
DecisionStep(r, d) == wf[r][d].pc = "evaluate" /\ wf'[r][d].pc # "evaluate"

\* This step is the delivery attempt (lines 150-165) of device d's chain.
DeliveryStep(r, d) == wf[r][d].pc = "deliver" /\ wf'[r][d].pc # "deliver"

NoTwoPrimaryInARow(log) ==
    \A i \in 1..(Len(log) - 1) : ~(log[i] = "primary" /\ log[i + 1] = "primary")

C3_ForwardEdge ==
    [][/\ \A r \in Slots, d \in DeviceIds :
            /\ (/\ DecisionStep(r, d)
                /\ ~OutsideWindow(wf[r][d])
                /\ ~wf[r][d].device.been_notified
                /\ MatchesTrigger(wf[r][d].device, wf[r][d].can_connect))
               => (wf'[r][d].pc = "deliver" /\ wf'[r][d].message = "primary")
            /\ (/\ DeliveryStep(r, d)
                /\ wf[r][d].message = "primary"
                /\ wf'[r][d].delivery = "sent")
               => (/\ outbox'[d] = Append(outbox[d], "primary")
                   /\ Ended(r, d)'
                   /\ d \in DOMAIN store'
                   /\ store'[d].been_notified = TRUE)
       /\ \A d \in DeviceIds :
            outbox'[d] # outbox[d]
            => \/ outbox'[d] = <<>>
               \/ \E r \in Slots :
                    /\ DeliveryStep(r, d)
                    /\ wf'[r][d].delivery = "sent"
                    /\ outbox'[d] = Append(outbox[d], wf[r][d].message)]_vars

\* The first cycle delivered the primary message of a one-shot device and
\* its flag is set.
C3_Witness ==
    \E d \in DOMAIN store :
        /\ cycles = 1
        /\ wf[1][d].pc = "done"
        /\ wf[1][d].delivery = "sent"
        /\ MatchesTrigger(store[d], wf[1][d].can_connect)
        /\ outbox[d] = <<"primary">>
        /\ ~store[d].persist
        /\ store[d].been_notified

\* C4: round trip.  A chain that computed a time inside the window for a
\* persisted device read with been_notified true and a probe result opposite
\* to its trigger goes on to send the "restored" message; when the mail
\* server accepts it, the outbox grows by that one message and the stored flag
\* is false, so that a forward edge followed by a reverse edge leaves two
\* deliveries and been_notified false.
C4_RoundTrip ==
    [][\A r \in Slots, d \in DeviceIds :
          /\ (/\ DecisionStep(r, d)
              /\ ~OutsideWindow(wf[r][d])
              /\ wf[r][d].device.persist
              /\ wf[r][d].device.been_notified
              /\ OppositeOfTrigger(wf[r][d].device, wf[r][d].can_connect))
             => (wf'[r][d].pc = "deliver" /\ wf'[r][d].message = "restored")
          /\ (/\ DeliveryStep(r, d)
              /\ wf[r][d].message = "restored"
              /\ wf'[r][d].delivery = "sent")
             => (/\ outbox'[d] = Append(outbox[d], "restored")
                 /\ Ended(r, d)'
                 /\ d \in DOMAIN store'
                 /\ store'[d].been_notified = FALSE
                 /\ (outbox[d] = <<"primary">>
                     => outbox'[d] = <<"primary", "restored">>))]_vars

\* The second cycle delivered the "restored" message of a persisted device
\* whose first cycle delivered the primary one.
C4_Witness ==
    \E d \in DOMAIN store :
        /\ cycles = 2
        /\ wf[1][d].pc = "done"
        /\ wf[1][d].delivery = "sent"
        /\ OppositeOfTrigger(store[d], wf[1][d].can_connect)
        /\ outbox[d] = <<"primary", "restored">>
        /\ store[d].persist
        /\ ~store[d].been_notified

\* C5: a delivery attempt that fails, at SMTP(...) or at send_message, leaves
\* the store and the outbox as they were, for the primary and for the
\* "restored" message.
C5_FailedDeliveryKeepsFlag ==
    [][\A r \in Slots, d \in DeviceIds :
          (DeliveryStep(r, d) /\ wf'[r][d].delivery \in {"connect_failed", "send_failed"})
          => (/\ store' = store
              /\ outbox' = outbox
              /\ wf'[r][d].error_logged)]_vars

\* The "restored" message of a notified persisted device could not be sent and
\* the flag is still true.
C5_Witness ==
    \E d \in DOMAIN store :
        /\ ops = 0
        /\ cycles = 2
        /\ wf[1][d].delivery \in {"connect_failed", "send_failed"}
        /\ outbox[d] = <<"primary">>
        /\ store[d].persist
        /\ store[d].been_notified

\* C6: a chain whose probe returned None sends nothing, writes nothing and
\* fails with the error logged; no step of the engine in that cycle removes
\* or changes the device, so it is there when the next cycle starts.
C6_UnknownProbe ==
    [][\A r \in Slots, d \in DeviceIds :
          /\ (/\ wf[r][d].pc = "process_notification"
              /\ wf[r][d].can_connect = "None"
              /\ wf'[r][d] # wf[r][d])
             => (/\ wf'[r][d].pc = "failed"
                 /\ wf'[r][d].error_logged
                 /\ outbox' = outbox
                 /\ store' = store)
          /\ (/\ wf[r][d].can_connect = "None"
              /\ ops' = ops
              /\ d \in DOMAIN store)
             => (d \in DOMAIN store' /\ store'[d] = store[d])]_vars

\* The chain of a notified one-shot device, which a cleanup would remove,
\* failed on a None probe result and the device is in the store.
C6_Witness ==
    \E r \in Slots, d \in DOMAIN store :
        /\ ops = 0
        /\ wf[r][d].pc = "failed"
        /\ wf[r][d].can_connect = "None"
        /\ wf[r][d].error_logged
        /\ HeaderComplete(r)
        /\ ~store[d].persist
        /\ store[d].been_notified

\* The devices with persist false and been_notified true.
Qualifying(db) == {id \in DOMAIN db : ~db[id].persist /\ db[id].been_notified}

CleanupReadStep(r) == run[r].phase = "cleanup" /\ run'[r].phase = "removing"

CleanupRemoveStep(r) == run[r].phase = "removing" /\ run'[r].phase = "finished"

\* C7: cleanup_monitor marks exactly the devices that have persist false and
\* been_notified true when it reads the store, and its delete removes the
\* marked ids and leaves every other row as it is.
C7_CleanupDeletesExactly ==
    [][\A r \in Slots :
          /\ CleanupReadStep(r)
             => (run'[r].pending = Qualifying(store) /\ store' = store)
          /\ CleanupRemoveStep(r)
             => (/\ DOMAIN store' = (DOMAIN store) \ run[r].pending
                 /\ \A d \in DOMAIN store' : store'[d] = store[d])]_vars

\* A cleanup has removed the notified one-shot device and kept the notified
\* persisted one.
C7_Witness ==
    \E d \in DOMAIN store, e \in DeviceIds \ DOMAIN store :
        /\ ops = 0
        /\ run[1].phase = "finished"
        /\ e \in run[1].snapshot
        /\ outbox[e] = <<"primary">>
        /\ store[d].persist
        /\ store[d].been_notified
        /\ outbox[d] = <<"primary">>

\* cleanup_monitor as one function of the store (lines 48-50).
CleanupMonitor(db) == DeleteDevices(db, DevicesPendingRemoval(db))

\* C8: cleanup_monitor is idempotent.  With no qualifying device it marks
\* and deletes nothing; the store it leaves has no qualifying device, so
\* running it again on that store changes nothing.
C8_CleanupIdempotent ==
    [][\A r \in Slots :
          /\ (CleanupReadStep(r) /\ Qualifying(store) = {})
             => run'[r].pending = {}
          /\ (CleanupRemoveStep(r) /\ run[r].pending = {})
             => store' = store
          /\ (CleanupRemoveStep(r) /\ run[r].pending = Qualifying(store))
             => (/\ Qualifying(store') = {}
                 /\ CleanupMonitor(store') = store'
                 /\ store' = CleanupMonitor(store))]_vars

\* The cleanup of the second cycle ran and deleted nothing after the cleanup
\* of the first cycle had deleted a device.
C8_Witness ==
    \E e \in DeviceIds \ DOMAIN store :
        /\ ops = 0
        /\ cycles = 2
        /\ run[1].phase = "finished"
        /\ e \notin run[1].snapshot
        /\ outbox[e] = <<"primary">>
        /\ run[1].snapshot = DOMAIN store

\* C9: while cleanup_monitor is running, every chain of the cycle's snapshot
\* has returned or raised.
C9_CompletionBarrier ==
    \A r \in Slots :
        run[r].phase \in {"cleanup", "removing"}
        => \A d \in run[r].snapshot : Ended(r, d)

\* cleanup_monitor has started after two chains, one of which delivered.
C9_Witness ==
    \E r \in Slots :
        /\ run[r].phase = "cleanup"
        /\ run[r].snapshot = DeviceIds
        /\ \A d \in DeviceIds : wf[r][d].pc = "done"
        /\ \E d \in DeviceIds : wf[r][d].delivery = "sent"

\* C10: every cycle that is over has called cleanup_monitor exactly once,
\* whatever its chains did.
C10_CleanupOncePerCycle ==
    \A r \in Slots :
        /\ run[r].cleanups <= 1
        /\ run[r].phase \in {"finished", "errored"} => run[r].cleanups = 1

\* This step is a step of device d's chain in chord r (a task of the header).
ChainStep(r, d) == run' = run /\ wf'[r][d] # wf[r][d]

\* C11: isolation.  A step of one device's chain, whether it returns or
\* raises, leaves the chain, the row and the outbox of every other device as
\* they are and does not reset a chain that has not ended; and while a
\* chain of the cycle has raised, every other chain of the snapshot that has
\* not ended can take its next step.
C11_Isolation ==
    /\ [](\A r \in Slots, d1 \in DeviceIds, d2 \in DeviceIds :
            (/\ d1 # d2
             /\ wf[r][d1].pc = "failed"
             /\ d2 \in run[r].snapshot
             /\ ~Ended(r, d2))
            => ENABLED Workflow(r, d2))
    /\ [][\A r \in Slots, d1 \in DeviceIds, d2 \in DeviceIds :
             d1 # d2 =>
             /\ ChainStep(r, d1)
                => (/\ wf'[r][d2] = wf[r][d2]
                    /\ outbox'[d2] = outbox[d2]
                    /\ (d2 \in DOMAIN store') = (d2 \in DOMAIN store)
                    /\ d2 \in DOMAIN store => store'[d2] = store[d2])
             /\ (/\ run[r].phase = "header"
                 /\ d2 \in run[r].snapshot
                 /\ ~Ended(r, d2))
                => wf'[r][d2].pc # "idle"]_vars

\* One chain of the cycle raised (no probe result, or the mail server could
\* not be reached) and the other one delivered and set its flag.
C11_Witness ==
    \E r \in Slots, d1 \in DeviceIds, d2 \in DOMAIN store :
        /\ d1 # d2
        /\ ops = 0
        /\ wf[r][d1].pc = "failed"
        /\ wf[r][d2].pc = "done"
        /\ wf[r][d2].delivery = "sent"
        /\ store[d2].been_notified
        /\ outbox[d2] = <<"primary">>

\* The protocols can_connect has a test for.
SupportedProtocols == {"None", "TCP", "UDP"}

\* C12: for an ICMP device and for a TCP or UDP device with a port, the
\* probe returns True exactly when the protocol's test succeeds and False
\* exactly when it fails, and it returns None only when the test could not
\* be run or the protocol is not supported.
C12_ProbeByProtocol ==
    \A r \in Slots, d \in DOMAIN store :
        (wf[r][d].pc = "process_notification"
         /\ store[d].proto \in SupportedProtocols)
        => /\ (wf[r][d].can_connect = "True") = (wf[r][d].test = "exit_0")
           /\ (wf[r][d].can_connect = "False") = (wf[r][d].test = "exit_nonzero")
           /\ (wf[r][d].can_connect = "None") = (wf[r][d].test = "fault")

\* This step ends the task can_connect of device d's chain.
ProbeStep(r, d) == wf[r][d].pc = "can_connect" /\ wf'[r][d].pc # "can_connect"

\* C13: whatever the registry does while the cycle runs, the probe of every
\* id of the snapshot ends by returning True, False or None to
\* process_notification; it never ends by raising.
C13_ProbeNeverRaises ==
    [][\A r \in Slots, d \in DeviceIds :
          ProbeStep(r, d)
          => (/\ wf'[r][d].pc = "process_notification"
              /\ wf'[r][d].can_connect \in Connectivity)]_vars

\* The row of d is one cleanup_monitor is to delete.
NotifiedTransient(d) ==
    d \in DOMAIN store /\ ~store[d].persist /\ store[d].been_notified

\* C14: with cycles that keep coming, a device with persist false whose
\* notification has been delivered (been_notified true) is deleted in the
\* end, whatever the probes and deliveries of the other devices give.  A
\* cycle in which the device's own chain raised is not held against the
\* engine.
C14_NotifiedEventuallyDeleted ==
    \A d \in DeviceIds :
        NotifiedTransient(d)
        ~> (~NotifiedTransient(d) \/ \E r \in Slots : wf[r][d].pc = "failed")

\* --------------------------------- a device that stays in its trigger state
\* The chain of a device whose probe gives its trigger state in every cycle
\* and whose process_notification runs inside its window; the mail server
\* accepts or refuses each message.
RetryWorkflow(r, d) ==
    \/ CanConnect(r, d) /\ MatchesTrigger(store[d], wf'[r][d].can_connect)
    \/ ProcessNotification(r, d) /\ ~OutsideWindow(wf'[r][d])
    \/ Evaluate(r, d)
    \/ DeliverConnectFails(r, d)
    \/ DeliverSendFails(r, d)
    \/ DeliverSent(r, d)

\* monitor_run for a beat that goes on for ever; the first MaxCycles cycles
\* are counted.
MonitorRunCounted(r) ==
    /\ run[r].phase \in Over
    /\ run' = [run EXCEPT ![r] = [phase |-> "header", snapshot |-> DOMAIN store,
                                  pending |-> {}, cleanups |-> 0]]
    /\ wf' = [wf EXCEPT ![r] = StartedWorkflows(DOMAIN store)]
    /\ cycles' = IF cycles < MaxCycles THEN cycles + 1 ELSE cycles
    /\ UNCHANGED <<store, outbox, ops>>

RetryNext ==
    \/ NoRunInFlight /\ MonitorRunCounted(1)
    \/ \E r \in Slots : Chord(r)
    \/ \E r \in Slots, d \in DeviceIds : RetryWorkflow(r, d)

\* The beat keeps starting cycles and the workers keep running the queued
\* tasks (weak fairness); delivery succeeds in the end: a message that is
\* handed to the mail server again and again is accepted at some time
\* (strong fairness of DeliverSent).
RetrySpec ==
    /\ Init
    /\ [][RetryNext]_vars
    /\ WF_vars(RetryNext)
    /\ \A d \in DeviceIds : SF_vars(DeliverSent(1, d))

\* The last delivery attempt of d's chain failed.
DeliveryFailed(d) ==
    \E r \in Slots : wf[r][d].delivery \in {"connect_failed", "send_failed"}

\* C15: a failed delivery is retried by the cycles that follow.  For a device
\* that stays in its trigger state inside its window, a delivery that failed
\* leads to a later attempt of the same message that the mail server
\* accepts, after which been_notified is true.
C15_FailedDeliveryRetried ==
    \A d \in DeviceIds :
        DeliveryFailed(d)
        ~> (/\ d \in DOMAIN store
            /\ store[d].been_notified
            /\ \E r \in Slots : wf[r][d].delivery = "sent")

\* The second cycle delivered the primary message that the first cycle, with
\* the same probe result inside the window, could not deliver.
C15_Witness ==
    \E d \in DOMAIN store :
        /\ cycles = 2
        /\ wf[1][d].delivery = "sent"
        /\ outbox[d] = <<"primary">>
        /\ store[d].been_notified
        /\ MatchesTrigger(store[d], wf[1][d].can_connect)

\* The stored flag of d, false for an id the store does not hold.
StoredFlag(db, d) == d \in DOMAIN db /\ db[d].been_notified

\* C16: the engine changes a stored flag only on an edge.  It goes from
\* false to true only in the accepted delivery of a chain whose probe result
\* matches the trigger of the device it read, and from true to false only in
\* the accepted delivery of a chain that read a persisted device and whose
\* probe result is the opposite of the trigger.  A chain that read a device
\* with persist false and been_notified true returns without a delivery and
\* without a write.
C16_EdgeTriggered ==
    [][\A d \in DeviceIds :
          /\ (ops' = ops /\ d \in DOMAIN store'
               /\ ~StoredFlag(store, d) /\ StoredFlag(store', d))
             => \E r \in Slots :
                   /\ DeliveryStep(r, d)
                   /\ wf'[r][d].delivery = "sent"
                   /\ ~wf[r][d].device.been_notified
                   /\ MatchesTrigger(wf[r][d].device, wf[r][d].can_connect)
          /\ (ops' = ops /\ d \in DOMAIN store'
               /\ StoredFlag(store, d) /\ ~StoredFlag(store', d))
             => \E r \in Slots :
                   /\ DeliveryStep(r, d)
                   /\ wf'[r][d].delivery = "sent"
                   /\ wf[r][d].device.persist
                   /\ wf[r][d].device.been_notified
                   /\ OppositeOfTrigger(wf[r][d].device, wf[r][d].can_connect)
          /\ \A r \in Slots :
                (/\ DecisionStep(r, d)
                 /\ ~wf[r][d].device.persist
                 /\ wf[r][d].device.been_notified)
                => (/\ wf'[r][d].pc = "done"
                    /\ wf'[r][d].delivery = "none"
                    /\ outbox' = outbox
                    /\ store' = store)]_vars

\* A notified one-shot device left in the store (the chord of its cycle
\* failed) was probed in the state opposite to its trigger and its chain
\* returned without a delivery; the flag is still true.
C16_Witness ==
    \E d \in DOMAIN store :
        /\ ops = 0
        /\ cycles = 2
        /\ ~store[d].persist
        /\ store[d].been_notified
        /\ outbox[d] = <<"primary">>
        /\ wf[1][d].pc = "done"
        /\ wf[1][d].delivery = "none"
        /\ OppositeOfTrigger(store[d], wf[1][d].can_connect)

\* A reading of the clock as the integer hour * 100 + minute.
NowHhmm(t) == (t.hour * 100) + t.minute

\* window_start <= now_hhmm <= window_end, both ends included.
WithinWindow(now_hhmm, device) ==
    /\ TriggerTime(device.monitor_start_utc) <= now_hhmm
    /\ now_hhmm <= TriggerTime(device.monitor_end_utc)

\* C17: the window test of a chain is window_start <= now_hhmm <=
\* window_end for the time of day at which the chain runs, ends included: a
\* chain is evaluated as inside the window when the time it read is in it
\* (the window's start and end among them) and as outside when it is not,
\* whichever of the readings of line 118 is taken as that time.
C17_WindowTest ==
    \A r \in Slots, d \in DeviceIds :
        wf[r][d].pc = "evaluate"
        => LET w == wf[r][d]
               first == NowHhmm(w.now[1])
               second == NowHhmm(w.now[2])
           IN  /\ (WithinWindow(first, w.device) /\ WithinWindow(second, w.device))
                  => InWindow(w.current_time_utc, w.device)
               /\ (~WithinWindow(first, w.device) /\ ~WithinWindow(second, w.device))
                  => ~InWindow(w.current_time_utc, w.device)

\* C18: a cycle works on the devices of its one read of the store.  A device
\* that was registered after the read is not in the snapshot: no chain of
\* the cycle reads it, decides on it or sends a message for it.
C18_SnapshotOnly ==
    \A r \in Slots, d \in DeviceIds :
        wf[r][d].pc \in {"evaluate", "deliver"}
        => wf[r][d].device.identifier = Identifier

\* C19: a device is created with been_notified false, and afterwards its
\* stored flag changes only in the step of a chain of the engine in which
\* the mail server accepted the chain's message; no request of the registry
\* sets or changes it.
C19_FlagOwnedByEngine ==
    [][\A d \in DeviceIds :
          /\ (ops' # ops /\ d \notin DOMAIN store /\ d \in DOMAIN store')
             => store'[d].been_notified = BeenNotifiedDefault
          /\ (/\ d \in DOMAIN store
              /\ d \in DOMAIN store'
              /\ store'[d].been_notified # store[d].been_notified)
             => \E r \in Slots :
                   DeliveryStep(r, d) /\ wf'[r][d].delivery = "sent"]_vars

\* The chain of device d in slot r enters the position pc in this step.
Enters(r, d, pc) == wf[r][d].pc # pc /\ wf'[r][d].pc = pc

\* C20: within the chain of one device the steps are ordered probe, evaluate,
\* deliver, flag write: process_notification starts only from a can_connect
\* that has returned a result, the decision is taken only in a started
\* process_notification that holds a result, a delivery is attempted only
\* with the message the decision built, and the engine writes the stored
\* row only in the step in which the mail server accepted that message.
C20_StepsOrdered ==
    /\ [](\A r \in Slots, d \in DeviceIds :
            /\ wf[r][d].pc \in {"process_notification", "evaluate", "deliver"}
               => wf[r][d].can_connect # "unset"
            /\ wf[r][d].pc \in {"evaluate", "deliver"}
               => wf[r][d].can_connect \in {"True", "False"}
            /\ wf[r][d].pc = "deliver" => wf[r][d].message # "none"
            /\ wf[r][d].delivery # "none" => Ended(r, d))
    /\ [][\A r \in Slots, d \in DeviceIds :
            /\ Enters(r, d, "process_notification")
               => ProbeStep(r, d) /\ wf[r][d].can_connect = "unset"
            /\ Enters(r, d, "evaluate") => wf[r][d].pc = "process_notification"
            /\ Enters(r, d, "deliver")
               => /\ DecisionStep(r, d)
                  /\ wf'[r][d].message =
                        Decision(wf[r][d].device, wf[r][d].can_connect,
                                 wf[r][d].current_time_utc)
            /\ Len(outbox'[d]) > Len(outbox[d])
               => \E q \in Slots :
                     /\ DeliveryStep(q, d)
                     /\ outbox'[d] = Append(outbox[d], wf[q][d].message)
            /\ (/\ ops' = ops
                /\ d \in DOMAIN store'
                /\ d \in DOMAIN store => store'[d] # store[d])
               => \E q \in Slots :
                     /\ DeliveryStep(q, d)
                     /\ wf'[q][d].delivery = "sent"
                     /\ Len(outbox'[d]) = Len(outbox[d]) + 1]_vars

\* A chain has run all four steps: it holds a probe result, its message is in
\* the outbox and the flag is written.
C20_Witness ==
    \E r \in Slots, d \in DOMAIN store :
        /\ wf[r][d].pc = "done"
        /\ wf[r][d].can_connect \in {"True", "False"}
        /\ wf[r][d].delivery = "sent"
        /\ Len(outbox[d]) = 1
        /\ store[d].been_notified

NoRepeatedNotification(log) ==
    \A i \in 1..(Len(log) - 1) : log[i] # log[i + 1]

\* C21: for every schedule of cycles the beat can produce, cycles that
\* overlap included, a device gets at most one notification per transition:
\* its outbox never holds the same notification twice in a row (two primary
\* messages with no "restored" between them, or two "restored" with no
\* primary between them).
C21_OnePerTransition ==
    \A d \in DeviceIds : NoRepeatedNotification(outbox[d])

\* The delivery step of device d's chain in which the message was accepted:
\* the step that ends with the flag write of lines 157-163.
FlagWriteStep(r, d) == DeliveryStep(r, d) /\ wf'[r][d].delivery = "sent"

\* C22: a deleted device stays deleted: when the row of a device has been
\* deleted between the read of its chain's process_notification and the
\* chain's flag write, the flag write does not put a row of that device
\* into the store.
C22_DeletedStaysDeleted ==
    [][\A r \in Slots, d \in DeviceIds :
          (FlagWriteStep(r, d) /\ d \notin DOMAIN store)
          => d \notin DOMAIN store']_vars

\* The columns of a row other than been_notified.
OtherColumns(device) == (DOMAIN device) \ {"been_notified"}

\* C23: the flag write changes only been_notified: every other column of
\* the row keeps the value the store has at the moment of the write, so a
\* registry update committed between the chain's read and its flag write is
\* still in the store after the write.
C23_FlagWriteFrame ==
    [][\A r \in Slots, d \in DeviceIds :
          (FlagWriteStep(r, d) /\ d \in DOMAIN store)
          => /\ d \in DOMAIN store'
             /\ \A f \in OtherColumns(store[d]) : store'[d][f] = store[d][f]]_vars

====
